---- MODULE Spec2Model ----
(* Fibonacci-heap priority queue (src/src/mutable_heap.rs) and the two        *)
(* shortest-path drivers built on it (src/src/dijkstra.rs).                   *)
EXTENDS Integers, Naturals, Sequences, FiniteSets, TLC

(* ---------------------------------------------------------------------- *)
(* Bounds of the model                                                    *)
(* ---------------------------------------------------------------------- *)
MaxPush == 5
MaxKey == 2
MaxNodeId == 4
MaxArcs == 2
DenseNodeId == 2
DenseArcs == 3
MaxWeight == 1
WordBits == 5
LongPush == 6
LongKey == 1
TreeNodeId == 4

VARIABLES
    heap,              \* the FibonacciHeap value
    debug_assertions,  \* build profile: are debug_assert! and overflow checks compiled in
    phase,             \* client position: "ops" (free use) or "drain" (pop until None)
    keyOf,             \* client bookkeeping: id -> key last assigned, for ids not yet popped
    result,            \* what the last public call returned
    prevPop,           \* key returned by the previous pop of the drain, -1 before the first
    used,              \* client bookkeeping: the mutating calls made so far
    issued,            \* client bookkeeping: the ids its pushes returned, in order
    cutInfo,           \* what the last call cut, if it was a modify that cut (else NoCut)
    stage,             \* <<1, id, k>> after modify(id, k) with k below all other keys,
                       \* <<2, id, k>> after the pop that follows, else NoStage
    pc,                \* position of the shortest-path run ("heap": no run, the heap is used directly)
    arcs,              \* the (from, to, weight) triples the network was built from
    start_node_id,     \* the source
    distance,          \* dijkstra: node -> distance label
    heap_id,           \* dijkstra: node -> handle of its heap node
    heap_to_network,   \* dijkstra: handle -> node
    children,          \* dijkstra: arcs of the current node still to relax
    current,           \* dijkstra: the node popped last and its distance
    finalized,         \* dijkstra: the nodes whose handle was popped, in order
    simple             \* what simple_dijkstra left on its own copy of the network

heapVars == <<heap, phase, keyOf, result, prevPop, used, issued, cutInfo, stage>>
runVars == <<pc, arcs, start_node_id, distance, heap_id, heap_to_network, children, current, finalized, simple>>
vars == <<heap, debug_assertions, phase, keyOf, result, prevPop, used, issued, cutInfo, stage,
          pc, arcs, start_node_id, distance, heap_id, heap_to_network, children, current, finalized, simple>>

(* ---------------------------------------------------------------------- *)
(* Option<HeapNodeId>: ids are issued from 1, so 0 encodes None           *)
(* ---------------------------------------------------------------------- *)
None == 0

Keys == 0..MaxKey

Remove(f, x) == [y \in (DOMAIN f) \ {x} |-> f[y]]

Insert(f, x, v) == [y \in (DOMAIN f) \cup {x} |-> IF y = x THEN v ELSE f[y]]

NewNode(key) == [key |-> key, parent |-> None, children |-> <<>>, shrinked |-> FALSE]

rank(node) == Len(node.children)

new == [id_node_map |-> <<>>, id_provider |-> 0, min_id_cache |-> None,
        rank_id_cache |-> <<>>, panic |-> "none"]

\* a panic unwinds the call: the first one sticks, later steps of the call do nothing
Panic(h, msg) == IF h.panic = "none" THEN [h EXCEPT !.panic = msg] ELSE h

Ok(h) == h.panic = "none"

Has(h, id) == id \in DOMAIN h.id_node_map

is_valid_as_peek(h, peek) == Has(h, peek) /\ h.id_node_map[peek].parent = None

\* merge with the comparison turned round: the root of the larger key adopts the other
merge_larger_on_top(h, heap1, heap2) ==
    IF ~Ok(h) THEN [h |-> h, v |-> None]
    ELSE IF ~Has(h, heap1) \/ ~Has(h, heap2)
    THEN [h |-> Panic(h, "merge: unwrap on None"), v |-> None]
    ELSE LET m == h.id_node_map
             smaller == IF m[heap1].key > m[heap2].key THEN heap1 ELSE heap2
             larger == IF m[heap1].key > m[heap2].key THEN heap2 ELSE heap1
             m1 == [m EXCEPT ![smaller].children = Append(@, larger)]
             m2 == [m1 EXCEPT ![larger].parent = smaller]
         IN [h |-> [h EXCEPT !.id_node_map = m2], v |-> smaller]

merge(h, heap1, heap2) ==
    IF ~Ok(h) THEN [h |-> h, v |-> None]
    ELSE IF debug_assertions /\ (~is_valid_as_peek(h, heap1) \/ ~is_valid_as_peek(h, heap2)
                                 \/ heap1 = heap2)
    THEN [h |-> Panic(h, "merge: debug_assert"), v |-> None]
    ELSE IF ~Has(h, heap1) \/ ~Has(h, heap2)
    THEN [h |-> Panic(h, "merge: unwrap on None"), v |-> None]
    ELSE LET m == h.id_node_map
             smaller == IF m[heap1].key < m[heap2].key THEN heap1 ELSE heap2
             larger == IF m[heap1].key < m[heap2].key THEN heap2 ELSE heap1
             m1 == [m EXCEPT ![smaller].children = Append(@, larger)]
             m2 == [m1 EXCEPT ![larger].parent = smaller]
         IN [h |-> [h EXCEPT !.id_node_map = m2], v |-> smaller]

\* put that files the tree at its rank and never merges with the tree already there
put_without_carry(h, hp, rk) == [h EXCEPT !.rank_id_cache = Insert(@, rk, hp)]

RECURSIVE put(_, _, _)
put(h, hp, rk) ==
    IF ~Ok(h) THEN h
    ELSE IF debug_assertions /\ ~is_valid_as_peek(h, hp)
    THEN Panic(h, "put: debug_assert is_valid_as_peek")
    ELSE IF debug_assertions /\ rank(h.id_node_map[hp]) # rk
    THEN Panic(h, "put: debug_assert rank")
    ELSE IF rk \in DOMAIN h.rank_id_cache
    THEN LET cached == h.rank_id_cache[rk]
             h1 == [h EXCEPT !.rank_id_cache = Remove(@, rk)]
             mg == merge(h1, hp, cached)
         IN put(mg.h, mg.v, rk + 1)
    ELSE [h EXCEPT !.rank_id_cache = Insert(@, rk, hp)]

RECURSIVE land_floating_nodes(_, _)
land_floating_nodes(h, floating) ==
    IF ~Ok(h) \/ floating = <<>> THEN h
    ELSE LET node_id == Head(floating)
         IN IF ~Has(h, node_id) THEN Panic(h, "land_floating_nodes: unwrap on None")
            ELSE land_floating_nodes(put(h, node_id, rank(h.id_node_map[node_id])),
                                     Tail(floating))

update_min_id_cache(h, id) ==
    IF ~Ok(h) THEN h
    ELSE IF h.min_id_cache = None THEN [h EXCEPT !.min_id_cache = id]
    ELSE IF ~Has(h, id) \/ ~Has(h, h.min_id_cache)
    THEN Panic(h, "update_min_id_cache: unwrap on None")
    ELSE IF h.id_node_map[id].key < h.id_node_map[h.min_id_cache].key
    THEN [h EXCEPT !.min_id_cache = id]
    ELSE h

\* an id taken from the number of nodes in the arena instead of the counter
provide_id_by_count(h) ==
    [h |-> [h EXCEPT !.id_provider = @ + 1], v |-> Cardinality(DOMAIN h.id_node_map) + 1]

provide_id(h) == [h |-> [h EXCEPT !.id_provider = @ + 1], v |-> h.id_provider + 1]

make_and_link_node(h, id, key) == [h EXCEPT !.id_node_map = Insert(@, id, NewNode(key))]

pop_assertions(h) ==
    h.min_id_cache # None =>
        /\ is_valid_as_peek(h, h.min_id_cache)
        /\ LET r == rank(h.id_node_map[h.min_id_cache])
           IN r \in DOMAIN h.rank_id_cache /\ h.rank_id_cache[r] = h.min_id_cache

\* pop_min_node_from_cache that unwraps the cache without the test for None
pop_min_node_from_cache_unwrap(h) ==
    IF ~Ok(h) THEN [h |-> h, v |-> None]
    ELSE IF h.min_id_cache = None \/ ~Has(h, h.min_id_cache)
    THEN [h |-> Panic(h, "pop_min_node_from_cache: unwrap on None"), v |-> None]
    ELSE [h |-> [h EXCEPT !.min_id_cache = None,
                          !.rank_id_cache = Remove(@, rank(h.id_node_map[h.min_id_cache]))],
          v |-> h.min_id_cache]

pop_min_node_from_cache(h) ==
    IF ~Ok(h) \/ h.min_id_cache = None THEN [h |-> h, v |-> None]
    ELSE LET min_id == h.min_id_cache
             h1 == [h EXCEPT !.min_id_cache = None]
         IN IF ~Has(h, min_id)
            THEN [h |-> Panic(h1, "pop_min_node_from_cache: unwrap on None"), v |-> None]
            ELSE [h |-> [h1 EXCEPT !.rank_id_cache = Remove(@, rank(h.id_node_map[min_id]))],
                  v |-> min_id]

RECURSIVE ClearParents(_, _)
ClearParents(m, child_ids) ==
    IF child_ids = <<>> THEN m
    ELSE ClearParents([m EXCEPT ![Head(child_ids)].parent = None,
                                ![Head(child_ids)].shrinked = FALSE], Tail(child_ids))

Range(s) == {s[i] : i \in DOMAIN s}

release_children(h, id) ==
    IF ~Ok(h) THEN [h |-> h, v |-> <<>>]
    ELSE IF ~Has(h, id) THEN [h |-> Panic(h, "release_children: unwrap on None"), v |-> <<>>]
    ELSE LET child_ids == h.id_node_map[id].children
             m1 == [h.id_node_map EXCEPT ![id].children = <<>>]
         IN IF \E c \in Range(child_ids) : c \notin DOMAIN m1
            THEN [h |-> Panic(h, "release_children: unwrap on None"), v |-> <<>>]
            ELSE [h |-> [h EXCEPT !.id_node_map = ClearParents(m1, child_ids)], v |-> child_ids]

\* the values min_id may end with: HashMap iteration order is arbitrary, the strict
\* comparison keeps the first of the roots of least key
rebuild_min_id_cache_choices(h) ==
    LET ids == Range(h.rank_id_cache)
        entries == Cardinality(DOMAIN h.rank_id_cache)
    IN IF entries = 0 THEN {None}
       ELSE IF entries = 1 THEN ids
       ELSE IF \E i \in ids : ~Has(h, i) THEN {-1}
       ELSE {i \in ids : \A j \in ids : h.id_node_map[i].key <= h.id_node_map[j].key}

rebuild_min_id_cache(h, choice) ==
    IF ~Ok(h) THEN h
    ELSE IF choice = -1 THEN Panic(h, "rebuild_min_id_cache: unwrap on None")
    ELSE [h EXCEPT !.min_id_cache = choice]

SelectSeq2(s, x) == SelectSeq(s, LAMBDA y : y # x)

\* cut that marks the parent it shrinks and stops there, without the cascade
cut_one_level(h, parent, child) ==
    IF ~Ok(h) THEN [h |-> h, v |-> <<>>]
    ELSE IF ~Has(h, child) \/ ~Has(h, parent)
    THEN [h |-> Panic(h, "cut: unwrap on None"), v |-> <<>>]
    ELSE LET m1 == [h.id_node_map EXCEPT ![child].parent = None, ![child].shrinked = FALSE]
             is_root == m1[parent].parent = None
             former_rank_of_parent == rank(m1[parent])
             registered == /\ is_root
                           /\ former_rank_of_parent \in DOMAIN h.rank_id_cache
                           /\ h.rank_id_cache[former_rank_of_parent] = parent
             m2 == [m1 EXCEPT ![parent].shrinked = IF is_root THEN @ ELSE TRUE,
                              ![parent].children = SelectSeq2(@, child)]
         IN [h |-> [h EXCEPT !.id_node_map = m2,
                             !.rank_id_cache = IF registered
                                               THEN Remove(@, former_rank_of_parent) ELSE @],
             v |-> IF registered THEN <<child, parent>> ELSE <<child>>]

RECURSIVE cut(_, _, _)
cut(h, parent, child) ==
    IF ~Ok(h) THEN [h |-> h, v |-> <<>>]
    ELSE IF ~Has(h, child) \/ ~Has(h, parent)
    THEN [h |-> Panic(h, "cut: unwrap on None"), v |-> <<>>]
    ELSE LET m1 == [h.id_node_map EXCEPT ![child].parent = None, ![child].shrinked = FALSE]
             parent_node == m1[parent]
             is_root == parent_node.parent = None
             former_rank_of_parent == rank(parent_node)
             registered == /\ is_root
                           /\ former_rank_of_parent \in DOMAIN h.rank_id_cache
                           /\ h.rank_id_cache[former_rank_of_parent] = parent
             cache1 == IF registered THEN Remove(h.rank_id_cache, former_rank_of_parent)
                       ELSE h.rank_id_cache
             floating == IF registered THEN <<child, parent>> ELSE <<child>>
             m2 == [m1 EXCEPT ![parent].shrinked = IF is_root THEN @ ELSE TRUE,
                              ![parent].children = SelectSeq2(@, child)]
             needs_cascading_cut == m2[parent].shrinked
             h2 == [h EXCEPT !.id_node_map = m2, !.rank_id_cache = cache1]
         IN IF ~needs_cascading_cut THEN [h |-> h2, v |-> floating]
            ELSE IF m2[parent].parent = None
            THEN [h |-> Panic(h2, "cut: unwrap on None"), v |-> <<>>]
            ELSE LET up == cut(h2, m2[parent].parent, parent)
                 IN [h |-> up.h, v |-> floating \o up.v]

\* heapify_between that never cuts
heapify_between_keeps(h, parent, child) ==
    IF ~Ok(h) THEN h
    ELSE IF ~Has(h, parent) \/ ~Has(h, child)
    THEN Panic(h, "heapify_between: unwrap on None")
    ELSE h

heapify_between(h, parent, child) ==
    IF ~Ok(h) THEN h
    ELSE IF ~Has(h, parent) \/ ~Has(h, child)
    THEN Panic(h, "heapify_between: unwrap on None")
    ELSE IF h.id_node_map[parent].key > h.id_node_map[child].key
    THEN LET c == cut(h, parent, child)
         IN land_floating_nodes(c.h, c.v)
    ELSE h

push(h, key) ==
    LET p == provide_id(h)
        h1 == make_and_link_node(p.h, p.v, key)
        h2 == update_min_id_cache(h1, p.v)
    IN [h |-> put(h2, p.v, 0), v |-> p.v]

\* pop up to and including land_floating_nodes
pop_landed(h) ==
    IF debug_assertions /\ ~pop_assertions(h)
    THEN [h |-> Panic(h, "pop: pop_assertions"), v |-> None]
    ELSE LET t == pop_min_node_from_cache(h)
         IN IF t.v = None THEN t
            ELSE LET r == release_children(t.h, t.v)
                 IN [h |-> land_floating_nodes(r.h, r.v), v |-> t.v]

\* pop from rebuild_min_id_cache on; v is the returned Option<(id, key)>
pop_rest(l, choice) ==
    IF ~Ok(l.h) \/ l.v = None THEN [h |-> l.h, v |-> <<>>]
    ELSE LET h1 == rebuild_min_id_cache(l.h, choice)
         IN IF ~Ok(h1) THEN [h |-> h1, v |-> <<>>]
            ELSE IF ~Has(h1, l.v)
            THEN [h |-> Panic(h1, "minimum node is unexpectedly removed in a way"), v |-> <<>>]
            ELSE [h |-> [h1 EXCEPT !.id_node_map = Remove(@, l.v)],
                  v |-> <<l.v, h1.id_node_map[l.v].key>>]

\* every outcome of pop, one for each order the rank cache may be iterated in
pop(h) ==
    LET l == pop_landed(h)
    IN IF ~Ok(l.h) \/ l.v = None THEN {[h |-> l.h, v |-> <<>>]}
       ELSE {pop_rest(l, c) : c \in rebuild_min_id_cache_choices(l.h)}

get_min(h) == h.min_id_cache

RECURSIVE heapify_children(_, _, _)
heapify_children(h, id, child_ids) ==
    IF ~Ok(h) \/ child_ids = <<>> THEN h
    ELSE heapify_children(heapify_between(h, id, Head(child_ids)), id, Tail(child_ids))

\* modify without its assertion: an id the arena does not hold is passed over in silence
modify_ignores_unknown(h, id, new_key) ==
    IF ~Has(h, id) THEN h
    ELSE LET h1 == [h EXCEPT !.id_node_map[id].key = new_key]
             h2 == update_min_id_cache(h1, id)
             parent_id == h2.id_node_map[id].parent
             h3 == IF Ok(h2) /\ parent_id # None THEN heapify_between(h2, parent_id, id) ELSE h2
         IN IF ~Ok(h3) THEN h3
            ELSE heapify_children(h3, id, h3.id_node_map[id].children)

\* modify that checks the id and leaves the key as it was
modify_keeps_key(h, id, new_key) ==
    IF ~Has(h, id) THEN Panic(h, "modify: assert contains_key") ELSE h

modify(h, id, new_key) ==
    IF ~Has(h, id) THEN Panic(h, "modify: assert contains_key")
    ELSE LET h1 == [h EXCEPT !.id_node_map[id].key = new_key]
             h2 == update_min_id_cache(h1, id)
             parent_id == h2.id_node_map[id].parent
             h3 == IF Ok(h2) /\ parent_id # None THEN heapify_between(h2, parent_id, id) ELSE h2
         IN IF ~Ok(h3) THEN h3
            ELSE heapify_children(h3, id, h3.id_node_map[id].children)

(* ---------------------------------------------------------------------- *)
(* A client of the heap: any use of the public API, then the drain loop   *)
(* `while let Some((id, key)) = heap.pop()` of test_mutable_heap          *)
(* ---------------------------------------------------------------------- *)
NoStage == <<0, None, -1>>

Roots(h) == {j \in DOMAIN h.id_node_map : h.id_node_map[j].parent = None}

RECURSIVE Ancestors(_, _, _)
\* the proper ancestors of id, following parent at most n times
Ancestors(h, id, n) ==
    IF n = 0 \/ ~Has(h, id) \/ h.id_node_map[id].parent = None THEN {}
    ELSE {h.id_node_map[id].parent} \cup Ancestors(h, h.id_node_map[id].parent, n - 1)

NoCut == [parent |-> None, ancestors |-> {}, inner |-> {}, floating |-> <<>>]

\* what modify(id, new_key) on h cuts: the parent it takes id from, the proper ancestors
\* id had, those of them that had a parent of their own, and the nodes cut leaves
\* floating; NoCut when heapify_between does not cut
CutOf(h, id, new_key) ==
    IF ~Has(h, id) \/ h.id_node_map[id].parent = None
          \/ ~Has(h, h.id_node_map[id].parent) THEN NoCut
    ELSE IF ~(h.id_node_map[h.id_node_map[id].parent].key > new_key) THEN NoCut
    ELSE LET h1 == [h EXCEPT !.id_node_map[id].key = new_key]
             h2 == update_min_id_cache(h1, id)
         IN [parent |-> h.id_node_map[id].parent,
             ancestors |-> Ancestors(h, id, Cardinality(DOMAIN h.id_node_map)),
             inner |-> {a \in Ancestors(h, id, Cardinality(DOMAIN h.id_node_map)) :
                          Has(h, a) /\ h.id_node_map[a].parent # None},
             floating |-> cut(h2, h.id_node_map[id].parent, id).v]

NoResult == [op |-> "none", some |-> FALSE, id |-> None, key |-> -1]

Init ==
    /\ heap = new
    /\ debug_assertions \in BOOLEAN
    /\ phase = "ops"
    /\ keyOf = <<>>
    /\ result = NoResult
    /\ prevPop = -1
    /\ used = {}
    /\ issued = <<>>
    /\ stage = NoStage
    /\ cutInfo = NoCut
    /\ pc = "heap"
    /\ arcs = <<>>
    /\ start_node_id = 0
    /\ distance = <<>>
    /\ heap_id = <<>>
    /\ heap_to_network = <<>>
    /\ children = <<>>
    /\ current = <<>>
    /\ finalized = <<>>
    /\ simple = <<>>

\* is id's key below the key of every other node the client holds
StrictlyLeast(keys, id) ==
    id \in DOMAIN keys /\ \A j \in (DOMAIN keys) \ {id} : keys[id] < keys[j]

\* a push, by a client that makes at most `limit` of them
PushWithin(k, limit) ==
    /\ phase = "ops" /\ Ok(heap)
    /\ heap.id_provider < limit
    /\ LET r == push(heap, k)
       IN /\ heap' = r.h
          /\ result' = [op |-> "push", some |-> Ok(r.h), id |-> r.v, key |-> k]
          /\ keyOf' = Insert(keyOf, r.v, k)
          /\ issued' = Append(issued, r.v)
    /\ used' = used \cup {"push"}
    /\ stage' = NoStage
    /\ cutInfo' = NoCut
    /\ UNCHANGED <<debug_assertions, phase, prevPop, runVars>>

Push(k) == PushWithin(k, MaxPush)

ModifyCall(id, k) ==
    /\ phase = "ops" /\ Ok(heap)
    /\ heap' = modify(heap, id, k)
    /\ result' = [op |-> "modify", some |-> Ok(heap'), id |-> id, key |-> k]
    /\ keyOf' = [keyOf EXCEPT ![id] = k]
    /\ used' = used \cup {IF k < keyOf[id] THEN "lower" ELSE "raise"}
    /\ UNCHANGED issued
    /\ stage' = IF StrictlyLeast(keyOf', id) THEN <<1, id, k>> ELSE NoStage
    /\ cutInfo' = CutOf(heap, id, k)
    /\ UNCHANGED <<debug_assertions, phase, prevPop, runVars>>

\* decrease-key: a handle the client holds, a strictly smaller key
Modify == \E id \in DOMAIN keyOf : \E k \in Keys : k < keyOf[id] /\ ModifyCall(id, k)

\* modify with a greater key, as test_mutable_heap does with 8 -> 50
ModifyRaise == \E id \in DOMAIN keyOf : \E k \in Keys : k > keyOf[id] /\ ModifyCall(id, k)

PopCall ==
    /\ Ok(heap)
    /\ \E r \in pop(heap) :
          /\ heap' = r.h
          /\ result' = IF Ok(r.h) /\ r.v # <<>>
                       THEN [op |-> "pop", some |-> TRUE, id |-> r.v[1], key |-> r.v[2]]
                       ELSE [op |-> "pop", some |-> FALSE, id |-> None, key |-> -1]
          /\ keyOf' = IF Ok(r.h) /\ r.v # <<>> THEN Remove(keyOf, r.v[1]) ELSE keyOf
    /\ stage' = IF stage[1] = 1 THEN <<2, stage[2], stage[3]>> ELSE NoStage
    /\ cutInfo' = NoCut
    /\ UNCHANGED <<debug_assertions, runVars>>

Pop ==
    /\ phase = "ops"
    /\ PopCall
    /\ used' = used \cup {"pop"}
    /\ UNCHANGED <<phase, prevPop, issued>>

GetMin ==
    /\ phase = "ops" /\ Ok(heap)
    /\ result' = [op |-> "get_min", some |-> get_min(heap) # None, id |-> get_min(heap), key |-> -1]
    /\ UNCHANGED <<heap, debug_assertions, phase, keyOf, prevPop, used, issued, cutInfo, stage,
                   runVars>>

\* the client enters `while let Some((id, key)) = heap.pop()`
StartDrain ==
    /\ phase = "ops" /\ Ok(heap)
    /\ phase' = "drain"
    /\ prevPop' = -1
    /\ result' = NoResult
    /\ UNCHANGED <<heap, debug_assertions, keyOf, used, issued, cutInfo, stage,
                   runVars>>

DrainPop ==
    /\ phase = "drain"
    /\ PopCall
    /\ prevPop' = IF result.op = "pop" /\ result.some THEN result.key ELSE prevPop
    /\ phase' = IF Ok(heap') /\ ~result'.some THEN "done" ELSE "drain"
    /\ UNCHANGED <<used, issued>>

Next == (\E k \in Keys : Push(k)) \/ Modify \/ Pop \/ GetMin \/ StartDrain \/ DrainPop

Spec == Init /\ [][Next]_vars

\* the same client when it raises keys instead of lowering them
NextRaise == (\E k \in Keys : Push(k)) \/ ModifyRaise \/ StartDrain \/ DrainPop

SpecRaise == Init /\ [][NextRaise]_vars

\* the client of Spec with one more push and fewer keys to choose from
NextLong ==
    (\E k \in 0..LongKey : PushWithin(k, LongPush)) \/ Modify \/ Pop \/ GetMin \/ StartDrain
        \/ DrainPop

SpecLong == Init /\ [][NextLong]_vars

\* modify with a handle the client does not hold: one pop returned already, or one
\* push never issued
ModifyUnknown ==
    \E id \in (1..(MaxPush + 1)) \ DOMAIN keyOf : \E k \in Keys :
        /\ phase = "ops" /\ Ok(heap)
        /\ heap' = modify(heap, id, k)
        /\ result' = [op |-> "modify", some |-> Ok(heap'), id |-> id, key |-> k]
        /\ used' = used \cup {"unknown"}
        /\ UNCHANGED issued
        /\ stage' = NoStage
        /\ cutInfo' = NoCut
        /\ UNCHANGED <<debug_assertions, phase, keyOf, prevPop, runVars>>

\* the client of Spec when it may also misuse a handle
NextUnknown == Next \/ ModifyUnknown

SpecUnknown == Init /\ [][NextUnknown]_vars

(* ---------------------------------------------------------------------- *)
(* The network and the two drivers (src/src/dijkstra.rs)                  *)
(* ---------------------------------------------------------------------- *)
usize_MAX == 2^WordBits - 1

Overflow == -1

\* an addition that counts the arc and drops its weight
usize_add_hops(a, b) == IF a + 1 <= usize_MAX THEN a + 1 ELSE Overflow

\* usize `+`: panics on overflow when overflow checks are compiled in, wraps otherwise
usize_add(a, b) ==
    IF a + b <= usize_MAX THEN a + b
    ELSE IF debug_assertions THEN Overflow
    ELSE (a + b) % (2^WordBits)

Max(S) == CHOOSE x \in S : \A y \in S : y <= x

\* network_factory: one node per id up to the largest id an arc names
network_factory(a) ==
    LET max_node_id == Max({0} \cup {a[i][1] : i \in DOMAIN a} \cup {a[i][2] : i \in DOMAIN a})
    IN [n \in 0..max_node_id |-> [distance |-> usize_MAX, heap_id |-> 0]]

NodeIds(a) == DOMAIN network_factory(a)

\* the outgoing arcs of a node, as indices into the arc list, in the order they were connected
RECURSIVE from_node_upto(_, _, _)
from_node_upto(a, u, n) ==
    IF n = 0 THEN <<>>
    ELSE IF a[n][1] = u THEN Append(from_node_upto(a, u, n - 1), n)
    ELSE from_node_upto(a, u, n - 1)

from_node(a, u) == from_node_upto(a, u, Len(a))

NoNode == -1

\* the comparison turned round: a label is replaced only by a greater one
improves_reversed(new_distance, node_distance) == new_distance > node_distance

\* `if new_distance < *node.distance`
improves(new_distance, node_distance) == new_distance < node_distance

RECURSIVE simple_select(_, _, _, _, _)
simple_select(dist, todo, current_node_id, minimum_distance, new_unprocessed_nodes) ==
    IF todo = <<>>
    THEN [current_node_id |-> current_node_id, unprocessed_nodes |-> new_unprocessed_nodes]
    ELSE LET node_id == Head(todo)
         IN IF dist[node_id] < minimum_distance
            THEN simple_select(dist, Tail(todo), node_id, dist[node_id],
                               IF current_node_id # NoNode
                               THEN Append(new_unprocessed_nodes, current_node_id)
                               ELSE new_unprocessed_nodes)
            ELSE simple_select(dist, Tail(todo), current_node_id, minimum_distance,
                               Append(new_unprocessed_nodes, node_id))

RECURSIVE simple_relax(_, _, _, _)
simple_relax(a, st, current_node_distance, ch) ==
    IF ch = <<>> \/ st.panic THEN st
    ELSE LET arc == a[Head(ch)]
             new_distance == usize_add(current_node_distance, arc[3])
         IN IF new_distance = Overflow THEN [st EXCEPT !.panic = TRUE]
            ELSE simple_relax(a,
                              IF improves(new_distance, st.distance[arc[2]])
                              THEN [st EXCEPT !.distance[arc[2]] = new_distance]
                              ELSE st,
                              current_node_distance, Tail(ch))

\* one pass of the loop of simple_dijkstra; st.pc is "loop" while it runs
simple_iteration(a, st) ==
    LET sel == simple_select(st.distance, st.unprocessed_nodes, NoNode, usize_MAX, <<>>)
        st1 == [st EXCEPT !.unprocessed_nodes = sel.unprocessed_nodes]
    IN IF sel.current_node_id = NoNode THEN [st1 EXCEPT !.pc = "done"]
       ELSE LET st2 == simple_relax(a, st1, st1.distance[sel.current_node_id],
                                    from_node(a, sel.current_node_id))
            IN IF st2.panic THEN [st2 EXCEPT !.pc = "panic"] ELSE st2

RECURSIVE push_all(_, _, _)
push_all(h, dist, todo) ==
    IF todo = <<>> THEN h
    ELSE push_all(push(h, dist[Head(todo)]).h, dist, Tail(todo))

ArcSet(maxId) == (0..maxId) \X (0..maxId) \X (0..MaxWeight)

\* the arc lists network_factory is given: few arcs among many nodes, more arcs among few
ArcLists ==
    (UNION {[1..n -> ArcSet(MaxNodeId)] : n \in 0..MaxArcs})
        \cup (UNION {[1..n -> ArcSet(DenseNodeId)] : n \in 0..DenseArcs})

InitRun(a) ==
    /\ arcs = a
    /\ start_node_id \in NodeIds(a)
    /\ debug_assertions \in BOOLEAN
    /\ pc = "setup"
    /\ heap = new
    /\ distance = [v \in NodeIds(a) |-> network_factory(a)[v].distance]
    /\ heap_id = [v \in NodeIds(a) |-> network_factory(a)[v].heap_id]
    /\ heap_to_network = <<>>
    /\ children = <<>>
    /\ current = <<>>
    /\ finalized = <<>>
    /\ simple = [distance |-> [v \in NodeIds(a) |-> network_factory(a)[v].distance],
                 unprocessed_nodes |-> <<>>, panic |-> FALSE, pc |-> "setup"]
    /\ phase = "run"
    /\ keyOf = <<>>
    /\ result = NoResult
    /\ prevPop = -1
    /\ used = {}
    /\ issued = <<>>
    /\ stage = NoStage
    /\ cutInfo = NoCut

InitDijkstra == \E a \in ArcLists : InitRun(a)

\* simple_dijkstra runs on a network of its own
SimpleSetup ==
    /\ simple.pc = "setup"
    /\ LET n == Cardinality(NodeIds(arcs))
       IN simple' = [distance |-> [v \in NodeIds(arcs) |->
                                     IF v = start_node_id THEN 0 ELSE usize_MAX],
                     unprocessed_nodes |-> [i \in 1..n |-> i - 1],
                     panic |-> FALSE, pc |-> "loop"]
    /\ UNCHANGED <<heapVars, debug_assertions, pc, arcs, start_node_id, distance, heap_id,
                   heap_to_network, children, current, finalized>>

SimpleIteration ==
    /\ simple.pc = "loop"
    /\ simple' = simple_iteration(arcs, simple)
    /\ UNCHANGED <<heapVars, debug_assertions, pc, arcs, start_node_id, distance, heap_id,
                   heap_to_network, children, current, finalized>>

\* dijkstra up to its loop: fill the labels, one push per node
DijkstraSetup ==
    /\ pc = "setup"
    /\ LET n == Cardinality(NodeIds(arcs))
           filled == [v \in NodeIds(arcs) |-> IF v = start_node_id THEN 0 ELSE usize_MAX]
       IN /\ distance' = filled
          /\ heap' = push_all(new, filled, [i \in 1..n |-> i - 1])
          /\ heap_id' = [v \in NodeIds(arcs) |-> v + 1]
          /\ heap_to_network' = [i \in 1..n |-> i - 1]
    /\ pc' = "loop"
    /\ UNCHANGED <<debug_assertions, phase, keyOf, result, prevPop, used, issued, cutInfo, stage,
                   arcs,
                   start_node_id,
                   children, current, finalized, simple>>

\* one pass of the loop up to `children`: pop, look the node up, collect its arcs
DijkstraPop ==
    /\ pc = "loop"
    /\ \E r \in pop(heap) :
          /\ heap' = r.h
          /\ IF ~Ok(r.h)
             THEN pc' = "panic" /\ UNCHANGED <<children, current, finalized>>
             ELSE IF r.v = <<>>
             THEN pc' = "done" /\ UNCHANGED <<children, current, finalized>>
             ELSE LET node == heap_to_network[r.v[1]]
                  IN /\ current' = <<node, distance[node]>>
                     /\ children' = from_node(arcs, node)
                     /\ finalized' = Append(finalized, node)
                     /\ pc' = IF children' = <<>> THEN "loop" ELSE "relax"
    /\ UNCHANGED <<debug_assertions, phase, keyOf, result, prevPop, used, issued, cutInfo, stage,
                   arcs,
                   start_node_id,
                   distance, heap_id, heap_to_network, simple>>

\* one pass of `for (node_id, arc_id) in children`
DijkstraRelax ==
    /\ pc = "relax"
    /\ LET arc == arcs[Head(children)]
           node_id == arc[2]
           new_distance == usize_add(current[2], arc[3])
       IN IF new_distance = Overflow
          THEN pc' = "panic" /\ UNCHANGED <<heap, distance, children>>
          ELSE IF improves(new_distance, distance[node_id])
          THEN /\ distance' = [distance EXCEPT ![node_id] = new_distance]
               /\ heap' = modify(heap, heap_id[node_id], new_distance)
               /\ children' = Tail(children)
               /\ pc' = IF ~Ok(heap') THEN "panic"
                        ELSE IF children' = <<>> THEN "loop" ELSE "relax"
          ELSE /\ children' = Tail(children)
               /\ pc' = IF children' = <<>> THEN "loop" ELSE "relax"
               /\ UNCHANGED <<heap, distance>>
    /\ UNCHANGED <<debug_assertions, phase, keyOf, result, prevPop, used, issued, cutInfo, stage,
                   arcs,
                   start_node_id,
                   heap_id, heap_to_network, current, finalized, simple>>

RECURSIVE dijkstra_relax(_, _, _, _)
\* `for (node_id, arc_id) in children` run to its end on st = [heap, distance, panic]
dijkstra_relax(a, st, current_network_node_distance, ch) ==
    IF ch = <<>> \/ st.panic THEN st
    ELSE LET arc == a[Head(ch)]
             new_distance == usize_add(current_network_node_distance, arc[3])
         IN IF new_distance = Overflow THEN [st EXCEPT !.panic = TRUE]
            ELSE IF improves(new_distance, st.distance[arc[2]])
            THEN LET h == modify(st.heap, heap_id[arc[2]], new_distance)
                 IN dijkstra_relax(a, [heap |-> h,
                                       distance |-> [st.distance EXCEPT ![arc[2]] = new_distance],
                                       panic |-> ~Ok(h)],
                                   current_network_node_distance, Tail(ch))
            ELSE dijkstra_relax(a, st, current_network_node_distance, Tail(ch))

RECURSIVE dijkstra_loop(_, _)
\* the loop of dijkstra run to its end from st, for every order rebuild_min_id_cache may
\* take: the set of <<"done", labels>> and <<"panic">> it can end with
dijkstra_loop(a, st) ==
    UNION {IF ~Ok(r.h) THEN {<<"panic">>}
           ELSE IF r.v = <<>> THEN {<<"done", st.distance>>}
           ELSE LET node == heap_to_network[r.v[1]]
                    st2 == dijkstra_relax(a, [st EXCEPT !.heap = r.h], st.distance[node],
                                          from_node(a, node))
                IN IF st2.panic THEN {<<"panic">>} ELSE dijkstra_loop(a, st2)
           : r \in pop(st.heap)}

SimpleStep == SimpleSetup \/ SimpleIteration

DijkstraStep == DijkstraSetup \/ DijkstraPop \/ DijkstraRelax

\* the order of benches/test.rs: simple_dijkstra runs to its end, then dijkstra
NextDijkstra == SimpleStep \/ (simple.pc \in {"done", "panic"} /\ DijkstraStep)

SpecDijkstra == InitDijkstra /\ [][NextDijkstra]_vars

(* ---------------------------------------------------------------------- *)
(* Scenario A: mini_instance(), source 0                                  *)
(* ---------------------------------------------------------------------- *)
mini_instance ==
    << <<0, 1, 1>>, <<0, 2, 3>>, <<0, 3, 2>>, <<1, 2, 1>>,
       <<3, 4, 2>>, <<4, 3, 2>>, <<4, 5, 2>>, <<5, 3, 2>> >>

InitScenarioA == InitRun(mini_instance) /\ start_node_id = 0

\* test_dijkstra and test_simple_dijkstra are separate tests, each on a mini_instance()
\* of its own: the test harness runs them on two threads, their steps interleave
NextScenarioA == SimpleStep \/ DijkstraStep

SpecScenarioA == InitScenarioA /\ [][NextScenarioA]_vars

(* ---------------------------------------------------------------------- *)
(* Shortest-path distances by definition: the least sum of weights over   *)
(* the paths from the source, Unreachable when there is no path           *)
(* ---------------------------------------------------------------------- *)
Min(S) == CHOOSE x \in S : \A y \in S : x <= y

\* one more arc: from node -> least weight of a path of at most k arcs (for the nodes
\* that have one) to the same for k + 1
ExtendPaths(a, d) ==
    LET via(v) == {d[a[i][1]] + a[i][3] :
                     i \in {j \in DOMAIN a : a[j][2] = v /\ a[j][1] \in DOMAIN d}}
        cand(v) == (IF v \in DOMAIN d THEN {d[v]} ELSE {}) \cup via(v)
    IN [v \in {u \in NodeIds(a) : cand(u) # {}} |-> Min(cand(v))]

RECURSIVE PathDistance(_, _, _)
PathDistance(a, d, k) == IF k = 0 THEN d ELSE PathDistance(a, ExtendPaths(a, d), k - 1)

TrueDistance ==
    PathDistance(arcs, [v \in {start_node_id} |-> 0], Cardinality(NodeIds(arcs)))

Reachable == DOMAIN TrueDistance

(* ---------------------------------------------------------------------- *)
(* Properties of the heap, checked under Spec and SpecRaise               *)
(* ---------------------------------------------------------------------- *)
KeysHeld == {keyOf[j] : j \in DOMAIN keyOf}

\* C1: in the drain loop that follows any use of push and modify (keys may repeat,
\* modify only lowers), each key pop returns is >= the key the previous pop returned.
C1_DrainNonDecreasing ==
    (phase = "drain" /\ result.op = "pop" /\ result.some) => prevPop <= result.key

\* a drain after pushes and a decrease-key only, whose pops returned two different keys
C1_Witness ==
    /\ phase = "drain" /\ result.op = "pop" /\ result.some
    /\ used = {"push", "lower"}
    /\ prevPop >= 0 /\ prevPop < result.key

\* C2: a pop on a non-empty heap returns (id, key) with key the key last assigned to id
\* and key <= the key of every node in the heap; id leaves the arena, nothing else
\* leaves it and no other key changes.
C2_PopReturnsMinimum ==
    [][(result'.op = "pop" /\ DOMAIN heap.id_node_map # {}) =>
          /\ result'.some
          /\ result'.id \in DOMAIN keyOf
          /\ result'.key = keyOf[result'.id]
          /\ \A j \in DOMAIN keyOf : result'.key <= keyOf[j]
          /\ DOMAIN heap'.id_node_map = (DOMAIN heap.id_node_map) \ {result'.id}
          /\ \A j \in DOMAIN heap'.id_node_map :
                heap'.id_node_map[j].key = heap.id_node_map[j].key]_vars

\* C7: every handle push returned and pop has not returned is in the arena, the heap
\* reports empty only when it holds no node, and the drain ends with every handle
\* returned (so it does not end by an abort).
C7_EveryHandlePoppedOnce ==
    /\ Ok(heap) => DOMAIN keyOf = DOMAIN heap.id_node_map
    /\ Ok(heap) => (get_min(heap) = None <=> DOMAIN heap.id_node_map = {})
    /\ (phase = "done" \/ ~Ok(heap)) => keyOf = <<>>

\* C8: after modify raised keys (of any node, the minimum included), the pops of the
\* drain all complete and return keys in non-decreasing order.
C8_RaiseKeepsOrder ==
    /\ Ok(heap)
    /\ (phase = "drain" /\ result.op = "pop" /\ result.some) => prevPop <= result.key

\* C9: after modify(id, k) with k below the key of every other node the next pop
\* returns exactly (id, k), and the pop after that returns the least remaining key.
C9_LoweredBelowAllPopsFirst ==
    [][/\ (stage[1] = 1 /\ result'.op = "pop") =>
             (result'.some /\ result'.id = stage[2] /\ result'.key = stage[3])
       /\ (stage[1] = 2 /\ result'.op = "pop" /\ keyOf # <<>>) =>
             (result'.some /\ result'.key = Min(KeysHeld))]_vars

C4_DriversAgree ==
    /\ pc # "panic"
    /\ (pc = "done" /\ simple.pc = "done") => distance = simple.distance

\* C5: no driver evaluates distance + weight with a sum beyond usize::MAX, and a node
\* without a path from the source holds usize::MAX when the driver completes.
C5_UnreachableKeepSentinel ==
    /\ pc = "relax" => current[2] + arcs[Head(children)][3] <= usize_MAX
    /\ pc = "done" => \A v \in NodeIds(arcs) \ Reachable : distance[v] = usize_MAX
    /\ simple.pc # "panic"
    /\ simple.pc = "done" =>
          \A v \in NodeIds(arcs) \ Reachable : simple.distance[v] = usize_MAX

\* C6: neither driver aborts, and when dijkstra's heap reports empty every node's
\* handle has been popped exactly once.
C6_TerminatesWithoutAbort ==
    /\ pc # "panic"
    /\ simple.pc # "panic"
    /\ pc = "done" =>
          /\ Len(finalized) = Cardinality(NodeIds(arcs))
          /\ Range(finalized) = NodeIds(arcs)

ScenarioADistances == [v \in 0..5 |-> <<0, 1, 2, 2, 4, 6>>[v + 1]]

\* C10: on mini_instance() with source 0 neither driver aborts, whatever root the heap
\* picks among equal keys, and each ends with distances [0, 1, 2, 2, 4, 6].
C10_ScenarioA ==
    /\ pc # "panic" /\ simple.pc # "panic"
    /\ pc = "done" => distance = ScenarioADistances
    /\ simple.pc = "done" => simple.distance = ScenarioADistances

\* both drivers have completed Scenario A
C10_Witness ==
    /\ arcs = mini_instance /\ start_node_id = 0
    /\ pc = "done" /\ simple.pc = "done"
    /\ Len(finalized) = 6

(* ---------------------------------------------------------------------- *)
(* Error handling and the structural invariants of the heap               *)
(* ---------------------------------------------------------------------- *)
\* C11: modify with an id the arena does not hold (never issued, or already popped)
\* fails its assertion and changes nothing else of the heap; modify with an id that
\* push returned and pop has not returned does not fail that assertion.
C11_ModifyUnknownAborts ==
    [][(result'.op = "modify") =>
          IF result'.id \in DOMAIN keyOf
          THEN heap'.panic # "modify: assert contains_key"
          ELSE /\ result'.id \notin DOMAIN heap.id_node_map
               /\ heap'.panic = "modify: assert contains_key"
               /\ heap' = [heap EXCEPT !.panic = "modify: assert contains_key"]]_vars

\* modify was called with an id a pop had returned, while other nodes are in the arena
C11_Witness ==
    /\ result.op = "modify" /\ ~result.some
    /\ "pop" \in used /\ result.id <= heap.id_provider
    /\ DOMAIN heap.id_node_map # {}
    /\ heap.panic = "modify: assert contains_key"

\* C12: when the arena holds no node, get_min returns None and pop returns None and
\* leaves the arena, both caches and the id counter as they were.
C12_EmptyHeapReturnsNone ==
    (Ok(heap) /\ DOMAIN heap.id_node_map = {}) =>
        /\ get_min(heap) = None
        /\ pop(heap) = {[h |-> heap, v |-> <<>>]}

\* the drain popped every node that was pushed and its last pop returned None
C12_Witness ==
    /\ phase = "done" /\ Ok(heap)
    /\ heap.id_provider >= 2 /\ DOMAIN heap.id_node_map = {}
    /\ result.op = "pop" /\ ~result.some

\* C13: get_min returns None exactly when the arena is empty; otherwise it returns the
\* id of a node of the arena whose key is <= every key in the arena, and the next pop
\* returns that id.
C13_GetMinNamesNextPop ==
    Ok(heap) =>
        /\ (get_min(heap) = None <=> DOMAIN heap.id_node_map = {})
        /\ get_min(heap) # None =>
              /\ Has(heap, get_min(heap))
              /\ \A j \in DOMAIN heap.id_node_map :
                    heap.id_node_map[get_min(heap)].key <= heap.id_node_map[j].key
              /\ \A r \in pop(heap) : Ok(r.h) /\ r.v # <<>> /\ r.v[1] = get_min(heap)

\* C14: the ids push returns on one heap are strictly increasing, so pairwise distinct:
\* none is issued twice, also after the node that held it was popped.
C14_IdsStrictlyIncreasing ==
    \A i, j \in DOMAIN issued : i < j => issued[i] < issued[j]

\* a push that follows the pop of an earlier id
C14_Witness ==
    /\ result.op = "push" /\ result.some
    /\ Len(issued) >= 3
    /\ \E i \in DOMAIN issued : issued[i] \notin DOMAIN heap.id_node_map

\* C15: after every push, pop and decrease-key, min_id_cache is None exactly when the
\* arena is empty; otherwise it names a node of the arena that has no parent, is the
\* entry of rank_id_cache at its own rank, and has a key <= the key of every root.
C15_MinCacheNamesLeastRoot ==
    Ok(heap) =>
        /\ (heap.min_id_cache = None <=> DOMAIN heap.id_node_map = {})
        /\ heap.min_id_cache # None =>
              /\ Has(heap, heap.min_id_cache)
              /\ heap.min_id_cache \in Roots(heap)
              /\ rank(heap.id_node_map[heap.min_id_cache]) \in DOMAIN heap.rank_id_cache
              /\ heap.rank_id_cache[rank(heap.id_node_map[heap.min_id_cache])]
                    = heap.min_id_cache
              /\ \A j \in Roots(heap) :
                    heap.id_node_map[heap.min_id_cache].key <= heap.id_node_map[j].key

\* C16: after every public operation each entry rank -> id of rank_id_cache names a
\* node of the arena without a parent and with exactly `rank` children, and every
\* node without a parent is such an entry.
C16_RankCacheHoldsTheRoots ==
    Ok(heap) =>
        /\ \A rk \in DOMAIN heap.rank_id_cache :
              /\ heap.rank_id_cache[rk] \in Roots(heap)
              /\ rank(heap.id_node_map[heap.rank_id_cache[rk]]) = rk
        /\ \A j \in Roots(heap) : j \in Range(heap.rank_id_cache)

\* C17: after every public operation every id in a children list is in the arena and
\* has that node as its parent, every node with a parent is once in that parent's
\* children, no node is its own ancestor, and every node has a root above it.
C17_ParentsAndChildrenAgree ==
    Ok(heap) =>
        \A j \in DOMAIN heap.id_node_map :
            /\ \A i \in DOMAIN heap.id_node_map[j].children :
                  /\ Has(heap, heap.id_node_map[j].children[i])
                  /\ heap.id_node_map[heap.id_node_map[j].children[i]].parent = j
            /\ heap.id_node_map[j].parent # None =>
                  /\ Has(heap, heap.id_node_map[j].parent)
                  /\ Cardinality({i \in DOMAIN heap.id_node_map[heap.id_node_map[j].parent].children :
                         heap.id_node_map[heap.id_node_map[j].parent].children[i] = j}) = 1
            /\ j \notin Ancestors(heap, j, Cardinality(DOMAIN heap.id_node_map))
            /\ (j \in Roots(heap)
                  \/ Ancestors(heap, j, Cardinality(DOMAIN heap.id_node_map)) \cap Roots(heap) # {})

\* C18: after every push, pop and decrease-key, the key of every node with a parent is
\* >= the key of that parent.
C18_ChildNotBelowParent ==
    Ok(heap) =>
        \A j \in DOMAIN heap.id_node_map :
            heap.id_node_map[j].parent # None =>
                /\ Has(heap, heap.id_node_map[j].parent)
                /\ heap.id_node_map[heap.id_node_map[j].parent].key <= heap.id_node_map[j].key

\* a decrease-key took the node from a parent of greater key
C18_Witness ==
    /\ Ok(heap) /\ result.op = "modify"
    /\ cutInfo.parent # None
    /\ Has(heap, result.id) /\ Has(heap, cutInfo.parent)
    /\ heap.id_node_map[cutInfo.parent].key > result.key

\* C20: when modify cuts a node from a parent that is not a root, every proper
\* ancestor of the node that had a parent of its own is cut in that call and left
\* floating for put; and once a public operation has returned no node has `shrinked` set.
C20_CutCascadesToTheRoot ==
    Ok(heap) =>
        /\ \A j \in DOMAIN heap.id_node_map : ~heap.id_node_map[j].shrinked
        /\ Cardinality(cutInfo.ancestors) >= 2 =>
              cutInfo.inner \subseteq Range(cutInfo.floating)

\* a decrease-key cut a node that had a parent and a grandparent
C20_Witness ==
    /\ Ok(heap) /\ result.op = "modify"
    /\ Cardinality(cutInfo.ancestors) >= 2
    /\ Len(cutInfo.floating) >= 3

(* ---------------------------------------------------------------------- *)
(* The drivers and the order the heap breaks ties in                      *)
(* ---------------------------------------------------------------------- *)
\* what the run of dijkstra can end with from the state it is in
DijkstraOutcomes ==
    CASE pc = "done" -> {<<"done", distance>>}
      [] pc = "panic" -> {<<"panic">>}
      [] pc = "loop" -> dijkstra_loop(arcs, [heap |-> heap, distance |-> distance, panic |-> FALSE])
      [] pc = "relax" ->
           LET st2 == dijkstra_relax(arcs, [heap |-> heap, distance |-> distance, panic |-> FALSE],
                                     current[2], children)
           IN IF st2.panic THEN {<<"panic">>} ELSE dijkstra_loop(arcs, st2)
      [] OTHER -> {}

\* C19: for a fixed graph, source and build, every order in which rebuild_min_id_cache
\* may pick among roots of equal least key leads dijkstra to the same end: it returns
\* on all of them, with the same labels, or aborts on all of them.
C19_TieBreakDoesNotMatter ==
    (pc = "loop" /\ finalized = <<>>) => Cardinality(DijkstraOutcomes) = 1

(* ---------------------------------------------------------------------- *)
(* Pushes alone: the roots count in binary                                *)
(* ---------------------------------------------------------------------- *)
RECURSIVE TreeNodes(_, _, _)
\* id and the nodes below it, following children at most n levels down
TreeNodes(h, id, n) ==
    IF n = 0 \/ ~Has(h, id) THEN {id}
    ELSE {id} \cup UNION {TreeNodes(h, c, n - 1) : c \in Range(h.id_node_map[id].children)}

\* the positions of the 1-bits of n
OneBits(n) == {r \in 0..n : (n \div (2^r)) % 2 = 1}

\* floor(log2 n), for n >= 1
FloorLog2(n) == Max({r \in 0..n : 2^r <= n})

\* the client has pushed and done nothing else to the heap
OnlyPushes == phase = "ops" /\ used = {"push"} /\ Ok(heap)

\* C21: after n pushes and nothing else, rank_id_cache holds a root at exactly the ranks
\* that are 1-bits of n, the root at rank r heads a tree of 2^r nodes, and there are at
\* most floor(log2 n) + 1 roots.
C21_PushesCountInBinary ==
    OnlyPushes =>
        LET n == Len(issued)
        IN /\ DOMAIN heap.rank_id_cache = OneBits(n)
           /\ \A r \in DOMAIN heap.rank_id_cache :
                 /\ is_valid_as_peek(heap, heap.rank_id_cache[r])
                 /\ rank(heap.id_node_map[heap.rank_id_cache[r]]) = r
                 /\ Cardinality(TreeNodes(heap, heap.rank_id_cache[r], n)) = 2^r
           /\ Roots(heap) = Range(heap.rank_id_cache)
           /\ Cardinality(Roots(heap)) <= FloorLog2(n) + 1

\* six pushes: 110 in binary, a tree of four nodes and a tree of two
C21_Witness ==
    /\ OnlyPushes
    /\ Len(issued) = LongPush
    /\ DOMAIN heap.rank_id_cache = {1, 2}
    /\ Cardinality(TreeNodes(heap, heap.rank_id_cache[2], LongPush)) = 4

(* ---------------------------------------------------------------------- *)
(* dijkstra when every node has a path from the source                    *)
(* ---------------------------------------------------------------------- *)
AllReachable == Reachable = NodeIds(arcs)

\* TreeNodeId arcs that reach every node from node 0: node v is entered from a node
\* of a smaller id
SpanningArcs ==
    {[v \in 1..TreeNodeId |-> <<p[v], v, w[v]>>] :
        p \in {q \in [1..TreeNodeId -> 0..(TreeNodeId - 1)] : \A v \in 1..TreeNodeId : q[v] < v},
        w \in [1..TreeNodeId -> 0..MaxWeight]}

\* the same with one more arc, any at all, connected first or last
ReachableArcLists ==
    SpanningArcs
        \cup {<<e>> \o t : e \in ArcSet(TreeNodeId), t \in SpanningArcs}
        \cup {Append(t, e) : e \in ArcSet(TreeNodeId), t \in SpanningArcs}

\* dijkstra runs from node 0 on a network all of whose nodes it can reach
InitReachable == \E a \in ReachableArcLists : InitRun(a) /\ start_node_id = 0

\* dijkstra alone: simple_dijkstra has no part in what these networks are for
NextReachable == DijkstraSetup \/ DijkstraPop \/ DijkstraRelax

SpecReachable == InitReachable /\ [][NextReachable]_vars

\* the pass of `for (node_id, arc_id) in children` about to run writes the label of
\* its node and calls modify with the node's handle
RelaxWrites ==
    /\ pc = "relax"
    /\ usize_add(current[2], arcs[Head(children)][3]) # Overflow
    /\ improves(usize_add(current[2], arcs[Head(children)][3]),
                distance[arcs[Head(children)][2]])

\* a step of dijkstra leaves the popped nodes final
PoppedStayFinal ==
    /\ \A v \in Range(finalized) : distance'[v] = distance[v]
    /\ RelaxWrites => arcs[Head(children)][2] \notin Range(finalized)
    /\ (pc = "loop" /\ finalized # <<>> /\ finalized' # finalized) => current'[2] >= current[2]

Unpopped == NodeIds(arcs) \ Range(finalized)

\* C23: at the top of every pass of dijkstra's loop, each node not yet popped has its
\* label as the key of the heap node under its handle, heap_to_network takes that
\* handle back to the node, and handles and nodes correspond one to one.
C23_KeyIsTheLabel ==
    pc = "loop" =>
        /\ \A v \in Unpopped :
              /\ Has(heap, heap_id[v])
              /\ heap.id_node_map[heap_id[v]].key = distance[v]
              /\ heap_id[v] \in DOMAIN heap_to_network
              /\ heap_to_network[heap_id[v]] = v
        /\ \A v, w \in NodeIds(arcs) : heap_id[v] = heap_id[w] => v = w
        /\ {heap_id[v] : v \in NodeIds(arcs)} = DOMAIN heap_to_network
        /\ \A i \in DOMAIN heap_to_network : heap_id[heap_to_network[i]] = i

\* a pass begins with a node still in the heap whose label a relaxation has lowered to
\* its shortest distance, and another the run has not reached yet
C23_Witness ==
    /\ pc = "loop"
    /\ finalized # <<>>
    /\ \E v \in Unpopped : distance[v] = usize_MAX
    /\ \E v \in Unpopped \cap Reachable :
          /\ distance[v] = TrueDistance[v]
          /\ heap.id_node_map[heap_id[v]].key = distance[v]

====
